---- MODULE Spec2Model ----
(***************************************************************************)
(* A model of torch-kalman's filtering engine (KalmanFilter.forward,       *)
(* forecast, simulate), its covariance parameterization (Covariance,       *)
(* pad_covariance) and the is_for_batch guard.                             *)
(*                                                                         *)
(* Two KalmanFilter classes live in the repository:                        *)
(*   "base"   : src/torch_kalman/kalman_filter/base.py                     *)
(*   "legacy" : src/torch_kalman/kalman_filter.py                          *)
(* The variable impl says which of the two the filter object is.           *)
(***************************************************************************)
EXTENDS Integers, Sequences, FiniteSets, TLC

\* ---------------------------------------------------------------- bounds
MaxT == 3          \* longest input series / horizon a caller passes
MaxCalls == 2      \* calls made on one filter object in a run
NumGroups == 2     \* groups (batch rows) of every input
MaxIter == 2       \* largest num_iter passed to simulate
MaxRank == 3       \* largest rank passed to pad_covariance
MaxBodyRuns == 3   \* executions of a wrapped method's body in a run
MaxCholRank == 4   \* largest rank passed to log_chol_to_chol

NoMeas == -1       \* a belief on which compute_measurement has not run
NoBelief == 0      \* an unbound local (Python: name not assigned)

VARIABLES
  impl,          \* "base" | "legacy": the KalmanFilter class of the filter
  measure_size,  \* self.design.measure_size
  heap,          \* the StateBelief objects, by identity (index into the sequence)
  fr,            \* the frame of the call in flight: its locals and position
  oplog,         \* belief operations issued by the current/last call, in order
  designs,       \* DesignForBatch materializations by the current/last call
  init_built,    \* whether the current/last call built an initial belief
  outcome,       \* "none" | "running" | "ok" | an exception name
  returned,      \* the StateBeliefOverTime the caller holds: the last one returned
  sims,          \* the list of trajectory tensors last returned by simulate
  ncalls         \* calls made so far

filterVars == <<impl, measure_size, heap, fr, oplog, designs, init_built,
                outcome, returned, sims, ncalls>>

VARIABLES
  covs,          \* the Covariance instances: their attributes and parameters
  cache,         \* the cache dict the caller passes to Covariance.forward
  last,          \* the last operation on a Covariance and what it did
  pad            \* a call of pad_covariance: its arguments and its result

covVars == <<covs, cache, last, pad>>

VARIABLES
  slf,           \* an object with the _for_batch flag
  body_log,      \* the executions of the wrapped method's body: their arguments
  call           \* the last call through an is_for_batch wrapper

batchVars == <<slf, body_log, call>>

VARIABLES
  chol           \* a call of Covariance.log_chol_to_chol: arguments and result

cholVars == <<chol>>

vars == <<filterVars, covVars, batchVars, cholVars>>

\* ------------------------------------------------ StateBelief (interface)
\* A belief is modelled by its lineage: the rows (groups) it carries, the
\* update/predict steps that produced it, and the time index of the H, R
\* last stored on it by compute_measurement.
NewBelief(rows) == [rows |-> rows, hist |-> <<>>, meas |-> NoMeas]

\* StateBelief.update(obs): returns a new posterior belief.
BeliefUpdate(b) == [rows |-> b.rows, hist |-> Append(b.hist, "update"), meas |-> NoMeas]

\* StateBelief.predict(F, Q): returns a new prior belief.
BeliefPredict(b) == [rows |-> b.rows, hist |-> Append(b.hist, "predict"), meas |-> NoMeas]

\* StateBelief.compute_measurement(H, R): stores the measurement on the belief
\* itself (in place), leaving mean and covariance alone.
BeliefComputeMeasurement(h, id, t) == [h EXCEPT ![id].meas = t]

IdleFrame ==
  [op |-> "none", pc |-> "idle", t |-> 0, n |-> 0, m |-> 0, from_sbot |-> FALSE,
   state_prediction |-> NoBelief, state_belief |-> NoBelief,
   start |-> NoBelief, out |-> <<>>, batch_design |-> NoMeas, after |-> "none",
   num_iter |-> 0]

\* Sizes of the measure dimension: of the design, and of the inputs passed.
MeasureCounts == {1, 2}

Rows == [i \in 1..NumGroups |-> i]

\* ------------------------------------------------------ optional values
\* Python's Optional[x]: None is the empty set, a value x is {x}.
None == {}
Some(x) == {x}
Get(opt) == CHOOSE x \in opt : TRUE

\* ------------------------------------------- Covariance: state at rest
Insts == {1, 2}     \* two Covariance instances that may share one cache

NotConstructed ==
  [state |-> "none", id |-> "", rank |-> 0, empty_idx |-> {}, method |-> "",
   cholesky_log_diag |-> None, cholesky_off_diag |-> None,
   expected_kwargs |-> None, time_varying_kwargs |-> None]

NoOp == [kind |-> "none", inst |-> 0, inputs |-> {}, outcome |-> "none",
         computed |-> FALSE, result |-> None]

NoPad == [called |-> FALSE, rank |-> 0, empty_idx |-> {}, mask_1d |-> <<>>,
          unpadded_cov |-> <<>>, out |-> <<>>]

NoCall == [made |-> FALSE, setting |-> FALSE, args |-> 0, outcome |-> "none", result |-> None]

NoChol == [called |-> FALSE, log_diag |-> <<>>, off_diag |-> <<>>, L |-> <<>>, reads |-> <<>>]

InitCholIdle == chol = NoChol

InitBatchIdle ==
  /\ slf = [_for_batch |-> FALSE]
  /\ body_log = <<>>
  /\ call = NoCall

InitCovIdle ==
  /\ covs = [i \in Insts |-> NotConstructed]
  /\ cache = <<>>
  /\ last = NoOp
  /\ pad = NoPad


InitFilter ==
  /\ impl \in {"base", "legacy"}
  /\ measure_size \in MeasureCounts
  /\ heap = <<NewBelief(Rows)>>      \* one belief the caller already holds
  /\ fr = IdleFrame
  /\ oplog = <<>>
  /\ designs = 0
  /\ init_built = FALSE
  /\ outcome = "none"
  /\ returned = <<>>
  /\ sims = <<>>
  /\ ncalls = 0

\* The filter at rest, for the runs that exercise the covariance only.
InitFilterIdle ==
  /\ impl = "base"
  /\ measure_size = 1
  /\ heap = <<NewBelief(Rows)>>
  /\ fr = IdleFrame
  /\ oplog = <<>>
  /\ designs = 0
  /\ init_built = FALSE
  /\ outcome = "none"
  /\ returned = <<>>
  /\ sims = <<>>
  /\ ncalls = 0

LogEntry(op, t, on) == [op |-> op, t |-> t, on |-> on]

\* ------------------------------------------------------ KalmanFilter.forward
\* A call starts when no call is in flight (and the run has calls left).
CanCall == fr.pc = "idle" /\ ncalls < MaxCalls

\* The frame on entry to a call: per-call instrumentation is reset; `after`
\* keeps the call that returned last, if it returned normally.
Enter(op, n) ==
  [IdleFrame EXCEPT !.op = op, !.n = n,
                    !.after = IF outcome = "ok" THEN fr.op ELSE "none"]

\* base.py 66-69 / kalman_filter.py 75-78: the shape check, first statement
\* after unpacking input.shape.
ShapeOk(num_measures) == num_measures = measure_size

\* Mutant: the shape check placed after the DesignForBatch is materialized.
ForwardRejectAfterDesign(num_timesteps, num_measures) ==
  /\ CanCall
  /\ num_measures # measure_size
  /\ fr' = [Enter("forward", num_timesteps) EXCEPT !.m = num_measures]
  /\ oplog' = <<>>
  /\ designs' = 1
  /\ init_built' = FALSE
  /\ outcome' = "ValueError"
  /\ ncalls' = ncalls + 1
  /\ UNCHANGED <<impl, measure_size, heap, returned, sims, covVars, batchVars, cholVars>>

\* forward on an input whose last dimension is not measure_size: ValueError.
ForwardReject(num_timesteps, num_measures) ==
  /\ CanCall
  /\ ~ShapeOk(num_measures)
  /\ fr' = [Enter("forward", num_timesteps) EXCEPT !.m = num_measures]
  /\ oplog' = <<>>
  /\ designs' = 0
  /\ init_built' = FALSE
  /\ outcome' = "ValueError"
  /\ ncalls' = ncalls + 1
  /\ UNCHANGED <<impl, measure_size, heap, returned, sims, covVars, batchVars, cholVars>>

\* forward up to the loop: shape check passed, the DesignForBatch is
\* materialized (base only: legacy materializes one design per timestep in the
\* loop), and the initial belief is taken from the caller or built.
ForwardBegin(num_timesteps, num_measures, initial_state) ==
  /\ CanCall
  /\ ShapeOk(num_measures)
  /\ oplog' = <<>>
  /\ designs' = IF impl = "base" THEN 1 ELSE 0
  /\ outcome' = "running"
  /\ IF initial_state = NoBelief
       THEN /\ heap' = Append(heap, NewBelief(Rows))
            /\ init_built' = TRUE
            /\ fr' = [Enter("forward", num_timesteps) EXCEPT
                        !.pc = "fwd_iter", !.m = num_measures,
                        !.state_prediction = Len(heap) + 1,
                        !.start = Len(heap) + 1]
       ELSE /\ heap' = heap
            /\ init_built' = FALSE
            /\ fr' = [Enter("forward", num_timesteps) EXCEPT
                        !.pc = "fwd_iter", !.m = num_measures,
                        !.state_prediction = initial_state,
                        !.start = initial_state]
  /\ ncalls' = ncalls + 1
  /\ UNCHANGED <<impl, measure_size, returned, sims, covVars, batchVars, cholVars>>

\* `if t > 0:` of the loop body.
ForwardHasObservation(t) == t > 0

\* Mutant: the transition of the step predicted into, not of the step left.
ForwardTransitionTimeSameStep(t) == t

\* The time index of the F, Q used to predict into step t: base reads
\* design_for_batch.F(t - 1); legacy reads the batch_design left by the
\* previous iteration, which was built for time t - 1.
ForwardTransitionTime(t) == IF impl = "base" THEN t - 1 ELSE fr.batch_design

\* state_belief = state_prediction.update(obs=input[:, t - 1, :])
ForwardUpdate ==
  /\ fr.pc = "fwd_iter"
  /\ fr.t < fr.n
  /\ ForwardHasObservation(fr.t)
  /\ heap' = Append(heap, BeliefUpdate(heap[fr.state_prediction]))
  /\ fr' = [fr EXCEPT !.pc = "fwd_predict", !.state_belief = Len(heap) + 1]
  /\ oplog' = Append(oplog, LogEntry("update", fr.t - 1, fr.state_prediction))
  /\ UNCHANGED <<impl, measure_size, designs, init_built, outcome, returned, sims, ncalls, covVars, batchVars, cholVars>>

\* state_prediction = state_belief.predict(F=F, Q=Q)
ForwardPredict ==
  /\ fr.pc = "fwd_predict"
  /\ heap' = Append(heap, BeliefPredict(heap[fr.state_belief]))
  /\ fr' = [fr EXCEPT !.pc = "fwd_measure", !.state_prediction = Len(heap) + 1]
  /\ oplog' = Append(oplog, LogEntry("predict", ForwardTransitionTime(fr.t), fr.state_belief))
  /\ UNCHANGED <<impl, measure_size, designs, init_built, outcome, returned, sims, ncalls, covVars, batchVars, cholVars>>

\* state_prediction.compute_measurement(H(t), R(t)); state_predictions.append(..)
\* (legacy builds the design for time t right before it).
ForwardMeasure ==
  /\ \/ fr.pc = "fwd_measure"
     \/ fr.pc = "fwd_iter" /\ fr.t < fr.n /\ ~ForwardHasObservation(fr.t)
  /\ heap' = BeliefComputeMeasurement(heap, fr.state_prediction, fr.t)
  /\ designs' = IF impl = "legacy" THEN designs + 1 ELSE designs
  /\ oplog' = Append(oplog, LogEntry("computeMeasurement", fr.t, fr.state_prediction))
  /\ fr' = [fr EXCEPT !.pc = "fwd_iter", !.t = fr.t + 1,
                      !.batch_design = IF impl = "legacy" THEN fr.t ELSE NoMeas,
                      !.out = Append(fr.out, fr.state_prediction)]
  /\ UNCHANGED <<impl, measure_size, init_built, outcome, returned, sims, ncalls, covVars, batchVars, cholVars>>

\* return self.family.concatenate_over_time(state_beliefs=state_predictions, ..)
ForwardReturn ==
  /\ fr.pc = "fwd_iter"
  /\ fr.t = fr.n
  /\ returned' = fr.out
  /\ outcome' = "ok"
  /\ fr' = [fr EXCEPT !.pc = "idle"]
  /\ UNCHANGED <<impl, measure_size, heap, oplog, designs, init_built, sims, ncalls, covVars, batchVars, cholVars>>

\* ----------------------------------------------------- KalmanFilter.forecast
\* Mutant: the assertion weakened to horizon >= 0.
HorizonNonNegative(horizon) == horizon >= 0

\* `assert horizon > 0`, the first statement of forecast and of simulate.
HorizonOk(horizon) == horizon > 0

\* forecast with a horizon that is not positive: AssertionError.
ForecastReject(horizon) ==
  /\ CanCall
  /\ ~HorizonOk(horizon)
  /\ fr' = Enter("forecast", horizon)
  /\ oplog' = <<>>
  /\ designs' = 0
  /\ init_built' = FALSE
  /\ outcome' = "AssertionError"
  /\ ncalls' = ncalls + 1
  /\ UNCHANGED <<impl, measure_size, heap, returned, sims, covVars, batchVars, cholVars>>

\* StateBeliefOverTime.last_prediction (base, forecast_from_datetimes None) and
\* state_beliefs[-1] (legacy): the last belief of the sequence.
LastPrediction(sbot) == sbot[Len(sbot)]

\* The starting belief: `states` is a StateBelief (a heap id) or the
\* StateBeliefOverTime the caller holds (given as NoBelief here).
StartingBelief(states) == IF states = NoBelief THEN LastPrediction(returned) ELSE states

\* forecast up to the loop. base materializes the DesignForBatch once, for
\* the whole horizon; legacy materializes one per step inside the loop.
ForecastBegin(states, horizon) ==
  /\ CanCall
  /\ HorizonOk(horizon)
  /\ states = NoBelief => returned # <<>>
  /\ fr' = [Enter("forecast", horizon) EXCEPT
              !.pc = "fc_iter", !.from_sbot = (states = NoBelief),
              !.state_prediction = StartingBelief(states),
              !.start = StartingBelief(states)]
  /\ oplog' = <<>>
  /\ designs' = IF impl = "base" THEN 1 ELSE 0
  /\ init_built' = FALSE
  /\ outcome' = "running"
  /\ ncalls' = ncalls + 1
  /\ UNCHANGED <<impl, measure_size, heap, returned, sims, covVars, batchVars, cholVars>>

\* Whether step t of the forecast loop predicts before measuring:
\* base `if t > 0:` (base.py 185); legacy predicts on every step
\* (kalman_filter.py 140).
ForecastPredicts(t) == IF impl = "base" THEN t > 0 ELSE TRUE

\* The time index of the F, Q of step t: base F(t - 1); legacy builds the
\* design for time h and reads its F, Q.
ForecastTransitionTime(t) == IF impl = "base" THEN t - 1 ELSE t

\* Mutant: the forward loop's update kept in the forecast loop.
ForecastPredictAfterUpdate ==
  /\ fr.pc = "fc_iter"
  /\ fr.t < fr.n
  /\ heap' = Append(Append(heap, BeliefUpdate(heap[fr.state_prediction])),
                    BeliefPredict(BeliefUpdate(heap[fr.state_prediction])))
  /\ designs' = designs
  /\ fr' = [fr EXCEPT !.pc = "fc_measure", !.state_prediction = Len(heap) + 2]
  /\ oplog' = oplog \o <<LogEntry("update", fr.t - 1, fr.state_prediction),
                         LogEntry("predict", fr.t - 1, Len(heap) + 1)>>
  /\ UNCHANGED <<impl, measure_size, init_built, outcome, returned, sims, ncalls, covVars, batchVars, cholVars>>

\* state_prediction = state_prediction.predict(F=F, Q=Q)
ForecastPredict ==
  /\ fr.pc = "fc_iter"
  /\ fr.t < fr.n
  /\ ForecastPredicts(fr.t)
  /\ heap' = Append(heap, BeliefPredict(heap[fr.state_prediction]))
  /\ designs' = IF impl = "legacy" THEN designs + 1 ELSE designs
  /\ fr' = [fr EXCEPT !.pc = "fc_measure", !.state_prediction = Len(heap) + 1,
                      !.batch_design = IF impl = "legacy" THEN fr.t ELSE NoMeas]
  /\ oplog' = Append(oplog, LogEntry("predict", ForecastTransitionTime(fr.t), fr.state_prediction))
  /\ UNCHANGED <<impl, measure_size, init_built, outcome, returned, sims, ncalls, covVars, batchVars, cholVars>>

\* state_prediction.compute_measurement(H, R); forecasts.append(state_prediction)
ForecastMeasure ==
  /\ \/ fr.pc = "fc_measure"
     \/ fr.pc = "fc_iter" /\ fr.t < fr.n /\ ~ForecastPredicts(fr.t)
  /\ heap' = BeliefComputeMeasurement(heap, fr.state_prediction, fr.t)
  /\ oplog' = Append(oplog, LogEntry("computeMeasurement", fr.t, fr.state_prediction))
  /\ fr' = [fr EXCEPT !.pc = "fc_iter", !.t = fr.t + 1,
                      !.out = Append(fr.out, fr.state_prediction)]
  /\ UNCHANGED <<impl, measure_size, designs, init_built, outcome, returned, sims, ncalls, covVars, batchVars, cholVars>>

\* return self.family.concatenate_over_time(state_beliefs=forecasts, ..)
ForecastReturn ==
  /\ fr.pc = "fc_iter"
  /\ fr.t = fr.n
  /\ returned' = fr.out
  /\ outcome' = "ok"
  /\ fr' = [fr EXCEPT !.pc = "idle"]
  /\ UNCHANGED <<impl, measure_size, heap, oplog, designs, init_built, sims, ncalls, covVars, batchVars, cholVars>>

\* ----------------------------------------------------- KalmanFilter.simulate
\* Mutant: repeat_interleave, each row repeated num_iter times in place.
TileInterleaved(rows, num_iter) ==
  [r \in 1..(Len(rows) * num_iter) |-> rows[((r - 1) \div num_iter) + 1]]

\* Tensor.repeat((num_iter, 1)) on the group dimension: num_iter copies of the
\* rows, one after the other.
RECURSIVE Tile(_, _)
Tile(rows, num_iter) == IF num_iter = 0 THEN <<>> ELSE rows \o Tile(rows, num_iter - 1)

\* torch.chunk(sim, chunks) along the group dimension: pieces of
\* ceil(len / chunks) rows, the last one possibly shorter, none empty.
ChunkSize(len, chunks) == (len + chunks - 1) \div chunks

RECURSIVE ChunkFrom(_, _)
ChunkFrom(rows, size) ==
  IF Len(rows) = 0 THEN <<>>
  ELSE IF Len(rows) <= size THEN <<rows>>
  ELSE <<SubSeq(rows, 1, size)>> \o ChunkFrom(SubSeq(rows, size + 1, Len(rows)), size)

Chunk(rows, chunks) == ChunkFrom(rows, ChunkSize(Len(rows), chunks))

\* StateBelief._simulate_state_trajectories: the predict / compute_measurement
\* recursion of the tiled belief over the horizon, with no update.
RECURSIVE SimulateTrajectoryLog(_, _)
SimulateTrajectoryLog(on, horizon) ==
  IF horizon = 0 THEN <<>>
  ELSE SimulateTrajectoryLog(on, horizon - 1)
       \o (IF horizon > 1 THEN <<LogEntry("predict", horizon - 2, on)>> ELSE <<>>)
       \o <<LogEntry("computeMeasurement", horizon - 1, on)>>

\* The default state_belief_to_measurements: one sampled row per group of the
\* trajectories' belief; a row is known by its position in the tiled belief
\* and the group it is a replicate of.
SampleMeasurements(belief) == [r \in 1..Len(belief.rows) |-> <<r, belief.rows[r]>>]

\* simulate with a horizon that is not positive: AssertionError.
SimulateReject(horizon) ==
  /\ impl = "base"
  /\ CanCall
  /\ ~HorizonOk(horizon)
  /\ fr' = Enter("simulate", horizon)
  /\ oplog' = <<>>
  /\ designs' = 0
  /\ init_built' = FALSE
  /\ outcome' = "AssertionError"
  /\ ncalls' = ncalls + 1
  /\ UNCHANGED <<impl, measure_size, heap, returned, sims, covVars, batchVars, cholVars>>

\* simulate: tile the starting belief num_iter times, materialize the design
\* for the tiled group count, simulate the trajectories, sample and chunk.
Simulate(states, horizon, num_iter) ==
  /\ impl = "base"
  /\ CanCall
  /\ HorizonOk(horizon)
  /\ states = NoBelief => returned # <<>>
  /\ LET initial_state == heap[StartingBelief(states)]
         tiled == NewBelief(Tile(initial_state.rows, num_iter))
     IN /\ heap' = Append(heap, [tiled EXCEPT !.hist = initial_state.hist])
        /\ fr' = [Enter("simulate", horizon) EXCEPT
                    !.start = StartingBelief(states),
                    !.from_sbot = (states = NoBelief),
                    !.num_iter = num_iter,
                    !.state_prediction = Len(heap) + 1]
        /\ oplog' = SimulateTrajectoryLog(Len(heap) + 1, horizon)
        /\ sims' = Chunk(SampleMeasurements(tiled), num_iter)
  /\ designs' = 1
  /\ init_built' = FALSE
  /\ outcome' = "ok"
  /\ ncalls' = ncalls + 1
  /\ UNCHANGED <<impl, measure_size, returned, covVars, batchVars, cholVars>>

\* ---------------------------------------------------------- the filter's runs
Timesteps == 1..MaxT       \* num_timesteps of the inputs passed to forward
Horizons == (-1)..MaxT     \* horizons passed to forecast and simulate
\* A belief argument: none (forward: build the initial belief; forecast and
\* simulate: start from the StateBeliefOverTime held) or the caller's own belief.
CallerBelief == 1
BeliefArgs == {NoBelief, CallerBelief}

NextFilter ==
  \/ \E T \in Timesteps, M \in MeasureCounts : ForwardReject(T, M)
  \/ \E T \in Timesteps, M \in MeasureCounts, b \in BeliefArgs : ForwardBegin(T, M, b)
  \/ ForwardUpdate
  \/ ForwardPredict
  \/ ForwardMeasure
  \/ ForwardReturn
  \/ \E h \in Horizons : ForecastReject(h)
  \/ \E b \in BeliefArgs, h \in Horizons : ForecastBegin(b, h)
  \/ ForecastPredict
  \/ ForecastMeasure
  \/ ForecastReturn
  \/ \E h \in Horizons : SimulateReject(h)
  \/ \E b \in BeliefArgs, h \in Horizons, N \in 1..MaxIter : Simulate(b, h, N)

InitF == InitFilter /\ InitCovIdle /\ InitBatchIdle /\ InitCholIdle

SpecFilter == InitF /\ [][NextFilter]_vars

\* ------------------------------------------------------- claims: the filter
\* The log without the identities of the beliefs acted on.
OpsOf(log) == [i \in 1..Len(log) |-> [op |-> log[i].op, t |-> log[i].t]]

IsPrefix(a, b) == Len(a) <= Len(b) /\ SubSeq(b, 1, Len(a)) = a

CountOp(log, op) == Cardinality({i \in 1..Len(log) : log[i].op = op})

\* n repetitions of the step s.
Repeat(s, n) == [i \in 1..n |-> s]

\* The order the claim states for T timesteps: computeMeasurement(0), then
\* update(t-1), predict(t-1), computeMeasurement(t) for t = 1..T-1.
ClaimedForwardOps(T) ==
  [i \in 1..(3 * T - 2) |->
     IF i = 1 THEN [op |-> "computeMeasurement", t |-> 0]
     ELSE LET t == (i + 1) \div 3
              r == (i + 1) % 3
          IN IF r = 0 THEN [op |-> "update", t |-> t - 1]
             ELSE IF r = 1 THEN [op |-> "predict", t |-> t - 1]
             ELSE [op |-> "computeMeasurement", t |-> t]]

ForwardPassed == fr.op = "forward" /\ outcome \in {"running", "ok"}
ForwardDone == fr.op = "forward" /\ outcome = "ok"

\* C1: forward on T >= 1 timesteps issues computeMeasurement(0), then for
\* t = 1..T-1 update(t-1), predict(t-1), computeMeasurement(t), in this order
\* and nothing else; it appends one belief after each computeMeasurement and
\* returns exactly T beliefs in time order (for T = 1: one computeMeasurement,
\* no update, no predict).
C1_ForwardOrder ==
  /\ ForwardPassed =>
       /\ IsPrefix(OpsOf(oplog), ClaimedForwardOps(fr.n))
       /\ fr.pc = "fwd_iter" => Len(fr.out) = CountOp(oplog, "computeMeasurement")
  /\ ForwardDone =>
       /\ OpsOf(oplog) = ClaimedForwardOps(fr.n)
       /\ Len(returned) = fr.n
       /\ \A k \in 1..Len(returned) :
            /\ heap[returned[k]].meas = k - 1
            /\ heap[returned[k]].hist =
                 heap[fr.start].hist \o
                 [i \in 1..(2 * (k - 1)) |-> IF i % 2 = 1 THEN "update" ELSE "predict"]
       /\ fr.n = 1 => /\ CountOp(oplog, "computeMeasurement") = 1
                      /\ CountOp(oplog, "update") = 0
                      /\ CountOp(oplog, "predict") = 0

C1_Witness == ForwardDone /\ fr.n = MaxT /\ CountOp(oplog, "update") = MaxT - 1

\* C2: when the input's last dimension differs from measure_size, forward
\* fails with the configuration error (ValueError) with no DesignForBatch
\* materialized, no initial belief built and no belief operation executed.
C2_MismatchFailsFirst ==
  (fr.op = "forward" /\ fr.m # measure_size) =>
     /\ outcome = "ValueError"
     /\ designs = 0
     /\ ~init_built
     /\ oplog = <<>>
     /\ fr.pc = "idle"

C2_Witness == fr.op = "forward" /\ fr.m # measure_size /\ outcome = "ValueError"

ForecastPassed == fr.op = "forecast" /\ outcome \in {"running", "ok"}
ForecastDone == fr.op = "forecast" /\ outcome = "ok"

\* C3: forecast with horizon h > 0 never calls update: it performs predict and
\* computeMeasurement only, and returns exactly h beliefs in time order, from
\* a single StateBelief as from a StateBeliefOverTime (starting at its last
\* belief).
C3_ForecastNoUpdate ==
  /\ ForecastPassed =>
       /\ \A i \in 1..Len(oplog) : oplog[i].op \in {"predict", "computeMeasurement"}
       /\ \A k \in 1..Len(fr.out) :
            \E j \in 0..fr.n :
              heap[fr.out[k]].hist = heap[fr.start].hist \o Repeat("predict", j)
  /\ ForecastDone =>
       /\ fr.n > 0
       /\ Len(returned) = fr.n
       /\ \A k \in 1..Len(returned) : heap[returned[k]].meas = k - 1
       /\ \A j, k \in 1..Len(returned) :
            j < k => Len(heap[returned[j]].hist) < Len(heap[returned[k]].hist)

C3_Witness ==
  /\ ForecastDone /\ fr.from_sbot /\ fr.after = "forward" /\ fr.n = MaxT
  /\ CountOp(oplog, "predict") >= MaxT - 1

\* C4 (as claimed): after a forward pass, the k-th belief forecast returns is
\* the starting belief (the last belief of the pass) with predict applied k
\* times, for every k in 1..h; the first one is one step ahead of the
\* starting belief and is not the starting belief.
C4_ForecastAdditional ==
  (ForecastDone /\ fr.from_sbot /\ fr.after = "forward") =>
    /\ returned[1] # fr.start
    /\ \A k \in 1..Len(returned) :
         heap[returned[k]].hist = heap[fr.start].hist \o Repeat("predict", k)

\* C5: forecast and simulate with horizon <= 0 fail with the assertion's
\* error before any DesignForBatch is materialized and before any predict or
\* computeMeasurement runs; neither ever returns an empty sequence.
C5_HorizonChecked ==
  /\ (fr.op \in {"forecast", "simulate"} /\ fr.n <= 0) =>
       /\ outcome = "AssertionError"
       /\ designs = 0
       /\ oplog = <<>>
       /\ fr.pc = "idle"
  /\ ForecastDone => returned # <<>>
  /\ (fr.op = "simulate" /\ outcome = "ok") => sims # <<>>

C5_Witness ==
  /\ fr.op = "simulate" /\ fr.n <= 0 /\ outcome = "AssertionError"
  /\ ncalls = 2 /\ returned # <<>>

\* ------------------------------------------------------------- matrices
\* A matrix of n rows is a function on 0..n-1 of functions on the columns,
\* indexed as the source indexes tensors.
Idx(n) == 0..(n - 1)

Size(M) == Cardinality(DOMAIN M)

RECURSIVE SumTo(_, _)
\* f(0) + ... + f(n-1) for a function f on 0..n-1
SumTo(f, n) == IF n = 0 THEN 0 ELSE SumTo(f, n - 1) + f[n - 1]

\* M.t()
Transpose(M) ==
  IF Size(M) = 0 THEN M
  ELSE [j \in DOMAIN M[0] |-> [i \in DOMAIN M |-> M[i][j]]]

\* A @ B
MatMul(A, B) ==
  IF Size(A) = 0 THEN A
  ELSE [i \in DOMAIN A |-> [j \in DOMAIN B[0] |->
          SumTo([k \in DOMAIN B |-> A[i][k] * B[k][j]], Size(B))]]

\* ------------------------------------------------------- pad_covariance
\* covariance.py 91-96: padded_to_unpadded and up_idx after the first loop.
\* mask_1d is a function on 0..rank-1 of 0 / 1.
FilledBefore(mask_1d, p_idx) == Cardinality({q \in DOMAIN mask_1d : q < p_idx /\ mask_1d[q] = 1})

PaddedToUnpadded(mask_1d) ==
  [p_idx \in {q \in DOMAIN mask_1d : mask_1d[q] = 1} |-> FilledBefore(mask_1d, p_idx)]

UpIdx(mask_1d) == Cardinality({q \in DOMAIN mask_1d : mask_1d[q] = 1})

\* Mutant: the mirroring assignment (covariance.py 109) left out.
PadCellUpperOnly(unpadded_cov, p2u, r, c) ==
  IF r <= c /\ r \in DOMAIN p2u /\ c \in DOMAIN p2u
    THEN unpadded_cov[p2u[r]][p2u[c]]
    ELSE 0

\* covariance.py 101-110: the value the loops leave in out[r][c]. The loops
\* visit to_r <= to_c, write out[to_r, to_c] from the live matrix and mirror
\* it into out[to_c, to_r]; cells they do not write keep the zero of
\* torch.zeros.
PadCell(unpadded_cov, p2u, r, c) ==
  LET to_r == IF r <= c THEN r ELSE c
      to_c == IF r <= c THEN c ELSE r
  IN IF to_r \in DOMAIN p2u /\ to_c \in DOMAIN p2u
       THEN unpadded_cov[p2u[to_r]][p2u[to_c]]
       ELSE 0

pad_covariance(unpadded_cov, mask_1d) ==
  LET rank == Size(mask_1d)
      p2u == PaddedToUnpadded(mask_1d)
  IN IF UpIdx(mask_1d) = rank
       THEN unpadded_cov
       ELSE [r \in Idx(rank) |-> [c \in Idx(rank) |-> PadCell(unpadded_cov, p2u, r, c)]]

\* --------------------------------------------------------- Covariance
\* torch.exp on the parameter values the model draws, in units in which a
\* value whose square is within the 1e-10 tolerance of zero is 0:
\* exp(-12)^2 = e^-24 < 1e-10, exp(0) = 1, exp(1) = 2.71.. (here 3).
Exp(x) == IF x <= -12 THEN 0 ELSE IF x <= 0 THEN 1 ELSE 3

\* Mutant: the off-diagonal vector read column by column, not in loop order.
OffDiagIndexByColumn(rank, i, j) ==
  Cardinality({q \in Idx(rank) \X Idx(rank) :
                 q[2] < q[1] /\ (q[2] < j \/ (q[2] = j /\ q[1] < i))})

\* covariance.py 47-51: the value of the counter idx when the loops reach
\* (i, j): the number of cells (a, b), b < a, visited before it.
OffDiagIndex(rank, i, j) ==
  Cardinality({q \in Idx(rank) \X Idx(rank) :
                 q[2] < q[1] /\ (q[1] < i \/ (q[1] = i /\ q[2] < j))})

\* Covariance.log_chol_to_chol
log_chol_to_chol(log_diag, off_diag) ==
  LET rank == Size(log_diag)
  IN [i \in Idx(rank) |-> [j \in Idx(rank) |->
        IF i = j THEN Exp(log_diag[i])
        ELSE IF j < i THEN off_diag[OffDiagIndex(rank, i, j)]
        ELSE 0]]

\* torch.isclose(x, torch.zeros(1), atol=1e-10), in the units of Exp.
IsCloseToZero(x) == x = 0

\* `i not in self.empty_idx` for i in range(rank), as 0 / 1
MaskOf(rank, empty_idx) == [i \in Idx(rank) |-> IF i \in empty_idx THEN 0 ELSE 1]

\* Covariance._get_padded_cov: the padded covariance, or the RuntimeError
\* raised when some variance of the live covariance is zero.
get_padded_cov(c) ==
  LET L == log_chol_to_chol(Get(c.cholesky_log_diag), Get(c.cholesky_off_diag))
      mini_cov == MatMul(L, Transpose(L))
  IN IF \E i \in DOMAIN mini_cov : IsCloseToZero(mini_cov[i][i])
       THEN [err |-> "RuntimeError", val |-> None]
       ELSE [err |-> "", val |-> Some(pad_covariance(mini_cov, MaskOf(c.rank, c.empty_idx)))]

\* Mutant: one key for every instance ('static', the prefix dropped).
StaticKeyWithoutPrefix(prefix) == "static"

\* f'{prefix}_static'
StaticKey(prefix) == prefix \o "_static"

\* Mutant: the time-varying test dropped, every call keyed as static.
get_cache_key_always_static(c, inputs) == [err |-> "", key |-> Some(StaticKey(c.id))]

\* Covariance._get_cache_key(inputs, prefix=self.id): the key, None (bypass
\* the cache), or NotImplementedError.
get_cache_key(c, inputs) ==
  IF Cardinality(inputs) = 0
    THEN [err |-> "", key |-> Some(StaticKey(c.id))]
  ELSE IF c.time_varying_kwargs # None
          /\ \E k \in inputs : k \in Get(c.time_varying_kwargs)
    THEN [err |-> "", key |-> None]
  ELSE [err |-> "NotImplementedError", key |-> None]

\* cache[key] = value
DictSet(d, key, value) ==
  [k \in DOMAIN d \cup {key} |-> IF k = key THEN value ELSE d[k]]

\* The parameter vectors the model draws (torch.randn at construction, the
\* optimizer's steps later). Draw 3 is a collapsed variance: a log-diagonal
\* so low that the first variance is zero to the tolerance.
Draws == {1, 2, 3}
LogDiagDraw(d, n) ==
  [i \in Idx(n) |-> IF d = 3 THEN (IF i = 0 THEN -12 ELSE 0)
                    ELSE IF d = 2 THEN (i + 1) % 2 ELSE 0]
OffDiagDraw(d, n) ==
  [k \in Idx(n) |-> IF d = 1 THEN k + 1 ELSE IF d = 2 THEN 0 - (k + 2) ELSE 1]

\* covariance.py 23: the rank of the live covariance
ParamRank(rank, empty_idx) == Cardinality({i \in Idx(rank) : i \notin empty_idx})

\* covariance.py 18-19: an empty empty_idx becomes [rank + 1]
NormEmptyIdx(rank, empty_idx) == IF Cardinality(empty_idx) = 0 THEN {rank + 1} ELSE empty_idx

\* The attributes __init__ sets before it looks at the method.
Attributes(id, rank, empty_idx, method) ==
  [NotConstructed EXCEPT !.id = id, !.rank = rank,
                         !.empty_idx = NormEmptyIdx(rank, empty_idx), !.method = method]

\* Mutant: the parameters allocated before the method is looked at.
ConstructedEagerly(id, rank, empty_idx, method, d) ==
  LET a == Attributes(id, rank, empty_idx, method)
      param_rank == ParamRank(a.rank, a.empty_idx)
      n_off == (param_rank * (param_rank - 1)) \div 2
  IN [a EXCEPT !.state = IF method = "log_cholesky" THEN "ok" ELSE "failed",
               !.cholesky_log_diag = Some(LogDiagDraw(d, param_rank)),
               !.cholesky_off_diag = Some(OffDiagDraw(d, n_off))]

\* Covariance.__init__: the object it leaves, complete ("ok") or, when the
\* method is not 'log_cholesky', as it is when NotImplementedError is raised.
Constructed(id, rank, empty_idx, method, d) ==
  LET a == Attributes(id, rank, empty_idx, method)
      param_rank == ParamRank(a.rank, a.empty_idx)
      n_off == (param_rank * (param_rank - 1)) \div 2
  IN IF method = "log_cholesky"
       THEN [a EXCEPT !.state = "ok",
                      !.cholesky_log_diag = Some(LogDiagDraw(d, param_rank)),
                      !.cholesky_off_diag = Some(OffDiagDraw(d, n_off))]
       ELSE [a EXCEPT !.state = "failed"]

IdOf(inst) == IF inst = 1 THEN "trend" ELSE "season"

Op(kind, inst, inputs, result_kind, computed, result) ==
  [kind |-> kind, inst |-> inst, inputs |-> inputs, outcome |-> result_kind,
   computed |-> computed, result |-> result]

\* Covariance(id, rank, empty_idx, method)
Construct(inst, rank, empty_idx, method, d) ==
  /\ covs[inst].state = "none"
  /\ covs' = [covs EXCEPT ![inst] = Constructed(IdOf(inst), rank, empty_idx, method, d)]
  /\ last' = Op("construct", inst, {}, IF covs'[inst].state = "ok" THEN "ok" ELSE "NotImplementedError",
                FALSE, None)
  /\ UNCHANGED <<cache, pad, filterVars, batchVars, cholVars>>

\* The owning process declares the instance's time-varying inputs
\* (season.py 54-55 sets time_varying_kwargs[0] = 'current_times').
DeclareTimeVarying(inst, names) ==
  /\ covs[inst].state = "ok"
  /\ covs[inst].time_varying_kwargs = None
  /\ covs' = [covs EXCEPT ![inst].time_varying_kwargs = Some(names)]
  /\ last' = Op("declare", inst, {}, "ok", FALSE, None)
  /\ UNCHANGED <<cache, pad, filterVars, batchVars, cholVars>>

\* An optimizer step: the parameters (torch.nn.Parameter) take new values.
Optimize(inst, d) ==
  /\ covs[inst].state = "ok"
  /\ LET n == Size(Get(covs[inst].cholesky_log_diag))
         m == Size(Get(covs[inst].cholesky_off_diag))
     IN covs' = [covs EXCEPT ![inst].cholesky_log_diag = Some(LogDiagDraw(d, n)),
                             ![inst].cholesky_off_diag = Some(OffDiagDraw(d, m))]
  /\ last' = Op("optimize", inst, {}, "ok", FALSE, None)
  /\ UNCHANGED <<cache, pad, filterVars, batchVars, cholVars>>

\* The caller starts a new assembly pass with a fresh cache.
NewCache ==
  /\ cache # <<>>
  /\ cache' = <<>>
  /\ last' = Op("newcache", 0, {}, "ok", FALSE, None)
  /\ UNCHANGED <<covs, pad, filterVars, batchVars, cholVars>>

\* Mutant: the entry for the key is reserved in the cache before the
\* covariance is computed, and stays there when the computation fails.
CovForwardReserveFirst(inst, inputs) ==
  /\ covs[inst].state = "ok"
  /\ LET c == covs[inst]
         k == get_cache_key(c, inputs)
         computed == get_padded_cov(c)
     IN IF k.err # ""
          THEN /\ last' = Op("forward", inst, inputs, k.err, FALSE, None)
               /\ cache' = cache
        ELSE IF k.key # None /\ Get(k.key) \in DOMAIN cache
          THEN /\ last' = Op("forward", inst, inputs, "ok", FALSE, Some(cache[Get(k.key)]))
               /\ cache' = cache
        ELSE IF computed.err # ""
          THEN /\ last' = Op("forward", inst, inputs, computed.err, TRUE, None)
               /\ cache' = IF k.key # None
                             THEN DictSet(cache, Get(k.key), <<>>)
                             ELSE cache
        ELSE /\ last' = Op("forward", inst, inputs, "ok", TRUE, computed.val)
             /\ cache' = IF k.key # None
                           THEN DictSet(cache, Get(k.key), Get(computed.val))
                           ELSE cache
  /\ UNCHANGED <<covs, pad, filterVars, batchVars, cholVars>>

\* Covariance.forward(inputs, cache)
CovForward(inst, inputs) ==
  /\ covs[inst].state = "ok"
  /\ LET c == covs[inst]
         k == get_cache_key(c, inputs)
         computed == get_padded_cov(c)
     IN IF k.err # ""
          THEN /\ last' = Op("forward", inst, inputs, k.err, FALSE, None)
               /\ cache' = cache
        ELSE IF k.key # None /\ Get(k.key) \in DOMAIN cache
          THEN /\ last' = Op("forward", inst, inputs, "ok", FALSE, Some(cache[Get(k.key)]))
               /\ cache' = cache
        ELSE IF computed.err # ""
          THEN /\ last' = Op("forward", inst, inputs, computed.err, TRUE, None)
               /\ cache' = cache
        ELSE /\ last' = Op("forward", inst, inputs, "ok", TRUE, computed.val)
             /\ cache' = IF k.key # None
                           THEN DictSet(cache, Get(k.key), Get(computed.val))
                           ELSE cache
  /\ UNCHANGED <<covs, pad, filterVars, batchVars, cholVars>>

\* The configurations (rank, empty_idx) the instances are constructed with.
CovConfigs == {<<1, {}>>, <<2, {0}>>, <<3, {1}>>}
Methods == {"log_cholesky", "cholesky"}
InputNames == {"current_times", "predictors"}
TimeVaryingChoices == {{"current_times"}}

NextCov ==
  \/ \E inst \in Insts, cfg \in CovConfigs, method \in Methods, d \in Draws :
       Construct(inst, cfg[1], cfg[2], method, d)
  \/ \E inst \in Insts, names \in TimeVaryingChoices : DeclareTimeVarying(inst, names)
  \/ \E inst \in Insts, d \in Draws : Optimize(inst, d)
  \/ NewCache
  \/ \E inst \in Insts, inputs \in SUBSET InputNames : CovForward(inst, inputs)

InitCov == InitFilterIdle /\ InitCovIdle /\ InitBatchIdle /\ InitCholIdle

SpecCov == InitCov /\ [][NextCov]_vars

\* ------------------------------------------------- runs of pad_covariance
\* The entries of the live covariances drawn.
PadVals == {-1, 0, 2}

\* The symmetric n x n matrix whose upper triangle, column by column, is u.
Symmetric(u, n) ==
  [i \in Idx(n) |-> [j \in Idx(n) |->
     LET lo == IF i <= j THEN i ELSE j
         hi == IF i <= j THEN j ELSE i
     IN u[(hi * (hi + 1)) \div 2 + lo]]]

PadArgs(rank, empty_idx, u) ==
  [called |-> FALSE, rank |-> rank, empty_idx |-> empty_idx,
   mask_1d |-> MaskOf(rank, NormEmptyIdx(rank, empty_idx)),
   unpadded_cov |-> Symmetric(u, ParamRank(rank, empty_idx)),
   out |-> <<>>]

\* Every rank up to MaxRank, every set of empty indices, every symmetric live
\* covariance over PadVals of the size the constructor computes.
InitPad ==
  /\ InitFilterIdle
  /\ InitBatchIdle
  /\ InitCholIdle
  /\ covs = [i \in Insts |-> NotConstructed]
  /\ cache = <<>>
  /\ last = NoOp
  /\ \E rank \in 0..MaxRank : \E empty_idx \in SUBSET Idx(rank) :
       LET n == ParamRank(rank, empty_idx)
       IN \E u \in [Idx((n * (n + 1)) \div 2) -> PadVals] :
            pad = PadArgs(rank, empty_idx, u)

\* pad_covariance(mini_cov, mask), as _get_padded_cov calls it
PadCall ==
  /\ ~pad.called
  /\ pad' = [pad EXCEPT !.called = TRUE,
                        !.out = pad_covariance(pad.unpadded_cov, pad.mask_1d)]
  /\ UNCHANGED <<covs, cache, last, filterVars, batchVars, cholVars>>

NextPad == PadCall

SpecPad == InitPad /\ [][NextPad]_vars

\* ------------------------------------------------------------ is_for_batch
\* Mutant: the setting ignored, the flag alone deciding.
PermittedIgnoringSetting(for_batch, setting) == for_batch

\* for_batch.py 18: the wrapper lets the call through when the flag equals
\* the decorator's setting.
Permitted(for_batch, setting) == for_batch = setting

\* The wrapped method: what func(slf, *args) returns.
Func(object, args) == <<object._for_batch, args>>

\* wrapped(slf, *args) of is_for_batch(setting)(func)
Wrapped(setting, args) ==
  /\ Len(body_log) < MaxBodyRuns
  /\ IF Permitted(slf._for_batch, setting)
       THEN /\ body_log' = Append(body_log, args)
            /\ call' = [made |-> TRUE, setting |-> setting, args |-> args,
                        outcome |-> "ok", result |-> Some(Func(slf, args))]
       ELSE /\ body_log' = body_log
            /\ call' = [made |-> TRUE, setting |-> setting, args |-> args,
                        outcome |-> "ValueError", result |-> None]
  /\ UNCHANGED <<slf, filterVars, covVars, cholVars>>

\* Process.for_batch / back to the template: the object called next is the
\* materialized one, or the template.
SetForBatch(flag) ==
  /\ slf._for_batch # flag
  /\ slf' = [slf EXCEPT !._for_batch = flag]
  /\ UNCHANGED <<body_log, call, filterVars, covVars, cholVars>>

ArgValues == {10, 20, 30}

NextBatch ==
  \/ \E setting \in BOOLEAN, args \in ArgValues : Wrapped(setting, args)
  \/ \E flag \in BOOLEAN : SetForBatch(flag)

InitBatch == InitFilterIdle /\ InitCovIdle /\ InitBatchIdle /\ InitCholIdle

SpecBatch == InitBatch /\ [][NextBatch]_vars

\* ---------------------------------------------------- claims: Covariance
\* C6: constructing a Covariance with a method other than 'log_cholesky'
\* fails in the constructor with neither the log-diagonal nor the
\* off-diagonal parameter allocated; with 'log_cholesky' construction
\* succeeds and both parameters exist (sized to the live rank).
C6_MethodChecked ==
  \A inst \in Insts :
    covs[inst].state # "none" =>
      IF covs[inst].method = "log_cholesky"
        THEN /\ covs[inst].state = "ok"
             /\ covs[inst].cholesky_log_diag # None
             /\ covs[inst].cholesky_off_diag # None
             /\ Size(Get(covs[inst].cholesky_log_diag))
                  = Cardinality(Idx(covs[inst].rank) \ covs[inst].empty_idx)
        ELSE /\ covs[inst].state = "failed"
             /\ covs[inst].cholesky_log_diag = None
             /\ covs[inst].cholesky_off_diag = None
             /\ (last.kind = "construct" /\ last.inst = inst)
                  => last.outcome = "NotImplementedError"

C6_Witness ==
  /\ covs[1].state = "failed" /\ covs[1].method = "cholesky"
  /\ covs[2].state = "ok" /\ covs[2].method = "log_cholesky"

\* The non-empty indices of a padded matrix, in increasing order: the a-th.
NonEmptyAt(rank, empty_idx, a) ==
  CHOOSE p \in Idx(rank) \ empty_idx :
    Cardinality({q \in Idx(rank) \ empty_idx : q < p}) = a

\* C7: pad_covariance returns a rank x rank matrix whose sub-matrix at the
\* non-empty indices, in increasing order, is the live covariance entry for
\* entry, and whose cells in an empty row or column are zero; with no empty
\* index the live covariance is returned unchanged.
C7_PadFaithful ==
  pad.called =>
    LET n == Size(pad.unpadded_cov)
    IN /\ DOMAIN pad.out = Idx(pad.rank)
       /\ \A r \in Idx(pad.rank) : DOMAIN pad.out[r] = Idx(pad.rank)
       /\ \A a, b \in Idx(n) :
            pad.out[NonEmptyAt(pad.rank, pad.empty_idx, a)]
                   [NonEmptyAt(pad.rank, pad.empty_idx, b)] = pad.unpadded_cov[a][b]
       /\ \A r, c \in Idx(pad.rank) :
            (r \in pad.empty_idx \/ c \in pad.empty_idx) => pad.out[r][c] = 0
       /\ pad.empty_idx = {} => pad.out = pad.unpadded_cov

C7_Witness ==
  /\ pad.called /\ pad.rank = 3 /\ pad.empty_idx = {1}
  /\ pad.unpadded_cov[0][1] = 2 /\ pad.unpadded_cov[1][0] = 2
  /\ pad.unpadded_cov[0][0] = -1
  /\ pad.out[2][0] = 2 /\ pad.out[1][1] = 0

\* The key of instance inst as the claim writes it: '{id}_static'.
ClaimedStaticKey(inst) == covs[inst].id \o "_static"

\* d and e agree on key k: both lack it or both hold the same value.
SameEntry(d, e, k) ==
  /\ k \in DOMAIN d <=> k \in DOMAIN e
  /\ k \in DOMAIN d => d[k] = e[k]

\* C8: a forward call with no inputs computes the covariance only when the
\* cache holds no entry under '{id}_static', and then stores it under that
\* key; a call that finds the entry returns the stored value without
\* recomputing and leaves the cache alone; the entry of an instance with
\* another id is neither read nor written.
C8_StaticCached ==
  [][ (last'.kind = "forward" /\ last'.inputs = {}) =>
        LET inst == last'.inst
            key == ClaimedStaticKey(inst)
        IN /\ key \in DOMAIN cache =>
                /\ ~last'.computed
                /\ last'.outcome = "ok"
                /\ last'.result = Some(cache[key])
                /\ cache' = cache
           /\ key \notin DOMAIN cache =>
                /\ last'.computed
                /\ last'.outcome = "ok" =>
                     /\ DOMAIN cache' = DOMAIN cache \cup {key}
                     /\ last'.result = Some(cache'[key])
                     /\ last'.result = get_padded_cov(covs[inst]).val
           /\ \A k \in (DOMAIN cache \cup DOMAIN cache') \ {key} : SameEntry(cache, cache', k)
           /\ \A other \in Insts \ {inst} :
                covs[other].id # covs[inst].id
                  => SameEntry(cache, cache', ClaimedStaticKey(other))
    ]_vars

\* A later call returned the stored value although the parameters have
\* changed since, with the other instance's entry in the same cache.
C8_Witness ==
  /\ last.kind = "forward" /\ last.inputs = {} /\ last.outcome = "ok"
  /\ ~last.computed
  /\ last.result = Some(cache[ClaimedStaticKey(last.inst)])
  /\ last.result # get_padded_cov(covs[last.inst]).val
  /\ \A inst \in Insts : ClaimedStaticKey(inst) \in DOMAIN cache
  /\ cache[ClaimedStaticKey(1)] # cache[ClaimedStaticKey(2)]

\* The call named at least one declared time-varying input.
NamesTimeVarying(c, inputs) ==
  /\ c.time_varying_kwargs # None
  /\ inputs \cap Get(c.time_varying_kwargs) # {}

\* C9: a forward call whose inputs name a declared time-varying input
\* bypasses the cache: it recomputes the covariance, reads no cache entry
\* and leaves the cache as it was, whatever the cache holds.
C9_TimeVaryingBypass ==
  [][ (last'.kind = "forward" /\ NamesTimeVarying(covs[last'.inst], last'.inputs)) =>
        /\ cache' = cache
        /\ last'.computed
        /\ last'.outcome \in {"ok", "RuntimeError"}
        /\ last'.outcome = "ok" => last'.result = get_padded_cov(covs[last'.inst]).val
    ]_vars

\* The bypass happened over a stale '{id}_static' entry.
C9_Witness ==
  /\ last.kind = "forward" /\ last.outcome = "ok" /\ last.computed
  /\ NamesTimeVarying(covs[last.inst], last.inputs)
  /\ ClaimedStaticKey(last.inst) \in DOMAIN cache
  /\ last.result # Some(cache[ClaimedStaticKey(last.inst)])

\* ---------------------------------------------------- claims: is_for_batch
\* C10: a method wrapped by is_for_batch(setting) runs only on an object
\* whose _for_batch flag equals setting; otherwise the call fails with
\* ValueError and the body is not executed; when permitted the body is called
\* once with the same arguments and its result is returned unchanged.
C10_ForBatchGuard ==
  [][ (call' # call \/ body_log' # body_log) =>
        IF slf._for_batch = call'.setting
          THEN /\ call'.outcome = "ok"
               /\ body_log' = Append(body_log, call'.args)
               /\ call'.result = Some(Func(slf, call'.args))
          ELSE /\ call'.outcome = "ValueError"
               /\ body_log' = body_log
               /\ call'.result = None
    ]_vars

C10_Witness ==
  /\ call.made /\ call.outcome = "ValueError" /\ call.setting /\ ~slf._for_batch
  /\ Len(body_log) = 2

\* ------------------------------------------- claims: the filter, continued
\* The call in flight (or the last one) was handed its starting belief by
\* the caller: the initial_state of forward, the StateBelief given to
\* forecast or simulate, or the last belief of the StateBeliefOverTime.
StartGivenByCaller(f, built) ==
  /\ f.op \in {"forward", "forecast", "simulate"}
  /\ f.start # NoBelief
  /\ ~built

\* C11 (as claimed): a StateBelief is immutable once computed: no step of a
\* forward, forecast or simulate call changes the belief the caller gave it
\* (mean and covariance lineage, stored measurement), and every belief a call
\* writes a measurement onto is one the call created itself.
C11_CallerBeliefImmutable ==
  [][ StartGivenByCaller(fr', init_built') =>
        /\ fr'.start <= Len(heap) => heap'[fr'.start] = heap[fr'.start]
        /\ \A i \in 1..Len(oplog') :
             oplog'[i].op = "computeMeasurement" => oplog'[i].on # fr'.start
    ]_vars

\* --------------------------------------------- runs of log_chol_to_chol
\* covariance.py 25: n_off = int(param_rank * (param_rank - 1) / 2)
NOff(param_rank) == (param_rank * (param_rank - 1)) \div 2

\* The cells the loops of log_chol_to_chol assign (covariance.py 48-50).
LowerCells(rank) == {q \in Idx(rank) \X Idx(rank) : q[2] < q[1]}

\* The index of off_diag read for each cell assigned.
OffDiagReads(rank) == [q \in LowerCells(rank) |-> OffDiagIndex(rank, q[1], q[2])]

\* The log-diagonal values drawn.
LogDiagVals == {-12, 0, 1}

\* Every rank up to MaxCholRank, every log-diagonal over LogDiagVals, and the
\* off-diagonal vectors of the draws, of the length the constructor gives.
InitChol ==
  /\ InitFilterIdle
  /\ InitBatchIdle
  /\ InitCovIdle
  /\ \E rank \in 0..MaxCholRank : \E log_diag \in [Idx(rank) -> LogDiagVals] : \E d \in Draws :
       chol = [NoChol EXCEPT !.log_diag = log_diag,
                             !.off_diag = OffDiagDraw(d, NOff(rank))]

\* L = Covariance.log_chol_to_chol(log_diag, off_diag)
CholCall ==
  /\ ~chol.called
  /\ chol' = [chol EXCEPT !.called = TRUE,
                          !.L = log_chol_to_chol(chol.log_diag, chol.off_diag),
                          !.reads = OffDiagReads(Size(chol.log_diag))]
  /\ UNCHANGED <<filterVars, covVars, batchVars>>

NextChol == CholCall

SpecChol == InitChol /\ [][NextChol]_vars

\* C12: log_chol_to_chol returns an n x n matrix with exp(log_diag[i]) at
\* (i, i), zero above the diagonal and off_diag[i*(i-1)/2 + j] at (i, j),
\* j < i; each of the n*(n-1)/2 off-diagonal parameters goes to exactly one
\* cell and no index beyond the vector's length is read.
C12_CholLayout ==
  chol.called =>
    LET n == Size(chol.log_diag)
        m == Size(chol.off_diag)
    IN /\ DOMAIN chol.L = Idx(n)
       /\ \A i \in Idx(n) : DOMAIN chol.L[i] = Idx(n)
       /\ \A i \in Idx(n) : chol.L[i][i] = Exp(chol.log_diag[i])
       /\ \A i, j \in Idx(n) : i < j => chol.L[i][j] = 0
       /\ \A i, j \in Idx(n) :
            j < i => /\ (i * (i - 1)) \div 2 + j \in DOMAIN chol.off_diag
                     /\ chol.L[i][j] = chol.off_diag[(i * (i - 1)) \div 2 + j]
       /\ m = (n * (n - 1)) \div 2
       /\ \A q \in DOMAIN chol.reads : chol.reads[q] \in Idx(m)
       /\ \A k \in Idx(m) :
            Cardinality({q \in DOMAIN chol.reads : chol.reads[q] = k}) = 1

\* Rank 4 with six distinct off-diagonal parameters, each in its cell.
C12_Witness ==
  /\ chol.called /\ Size(chol.log_diag) = 4
  /\ \A k, l \in DOMAIN chol.off_diag : k # l => chol.off_diag[k] # chol.off_diag[l]
  /\ chol.L[2][1] = chol.off_diag[2] /\ chol.L[3][0] = chol.off_diag[3]
  /\ chol.L[3][2] = chol.off_diag[5]
  /\ chol.L[0][0] = 0 /\ chol.L[1][1] = 3

\* C13: simulate on a starting belief of G groups with num_iter = N >= 1 runs
\* the recursion on a tiled belief of G*N groups whose row r is a copy of
\* original group r mod G, and (the sampling strategy returning one row per
\* tiled group) returns exactly N trajectory tensors, the i-th holding the
\* tiled rows i*G .. (i+1)*G-1: one replicate of every group, in group order.
C13_SimulateTiling ==
  (fr.op = "simulate" /\ outcome = "ok") =>
    LET original == heap[fr.start]
        tiled == heap[fr.state_prediction]
        G == Len(original.rows)
        N == fr.num_iter
    IN /\ fr.state_prediction # fr.start
       /\ Len(tiled.rows) = G * N
       /\ \A r \in 0..(G * N - 1) : tiled.rows[r + 1] = original.rows[(r % G) + 1]
       /\ tiled.hist = original.hist
       /\ \A i \in 1..Len(oplog) : oplog[i].on = fr.state_prediction
       /\ Len(sims) = N
       /\ \A i \in 0..(N - 1) :
            sims[i + 1] = [k \in 1..G |-> <<i * G + k, original.rows[k]>>]

C13_Witness ==
  /\ fr.op = "simulate" /\ outcome = "ok" /\ fr.from_sbot
  /\ fr.num_iter = MaxIter /\ fr.n = MaxT
  /\ Len(sims) = MaxIter
  /\ sims[MaxIter][1] = <<(MaxIter - 1) * NumGroups + 1, 1>>

\* The live covariance L L^T of an instance has a variance that is zero to
\* the tolerance of _get_padded_cov.
ZeroVariance(c) ==
  LET L == log_chol_to_chol(Get(c.cholesky_log_diag), Get(c.cholesky_off_diag))
      mini_cov == MatMul(L, Transpose(L))
  IN \E i \in DOMAIN mini_cov : IsCloseToZero(mini_cov[i][i])

\* Some name of the inputs is declared time-varying on the instance.
MatchesTimeVarying(c, inputs) ==
  /\ c.time_varying_kwargs # None
  /\ \E k \in inputs : k \in Get(c.time_varying_kwargs)

\* C14: whenever Covariance.forward fails the caller's cache is left exactly as
\* it was before the call; a call with non-empty inputs none of which is a
\* declared time-varying name fails as not implemented, a call with empty
\* inputs that computes a live covariance with a zero variance fails
\* numerically, and neither leaves a '{id}_static' entry behind.
C14_FailureLeavesCache ==
  [][ last'.kind = "forward" =>
        LET c == covs[last'.inst]
            inputs == last'.inputs
            static == IdOf(last'.inst) \o "_static"
        IN /\ last'.outcome # "ok" =>
                /\ cache' = cache
                /\ static \in DOMAIN cache' => static \in DOMAIN cache
           /\ (inputs # {} /\ ~MatchesTimeVarying(c, inputs)) =>
                /\ last'.outcome = "NotImplementedError"
                /\ cache' = cache
           /\ (inputs = {} /\ static \notin DOMAIN cache /\ ZeroVariance(c)) =>
                /\ last'.outcome = "RuntimeError"
                /\ cache' = cache
                /\ static \notin DOMAIN cache'
    ]_vars

C14_Witness ==
  /\ last.kind = "forward" /\ last.outcome = "RuntimeError" /\ last.inputs = {}
  /\ last.inst = 1
  /\ ZeroVariance(covs[1])
  /\ "trend_static" \notin DOMAIN cache
  /\ "season_static" \in DOMAIN cache

====
